---- MODULE Spec2Model ----
(***************************************************************************)
(* Model of video/generate_audio.py: the segmentation of a voice script    *)
(* (split_for_polly), the synthesis of each segment with engine fallback   *)
(* (synthesize_speech), the concatenation of the audio (concatenate_audio) *)
(* and the sequential pipeline that ties them together (main).             *)
(*                                                                         *)
(* A string is a sequence of characters, each a one-character string.      *)
(* One extra element, Filler, abbreviates a run of FillerLen copies of the *)
(* letter "w": a letter that occurs in none of the patterns the program    *)
(* searches for and is not whitespace, so every search treats the run as   *)
(* it treats one "w", and only len() sees its width.  It keeps scripts     *)
(* longer than the 3000 characters main allows per segment enumerable.     *)
(***************************************************************************)
EXTENDS Integers, Sequences, FiniteSets

VARIABLES
    text,            \* split_for_polly: the argument text
    max_chars,       \* split_for_polly: the argument max_chars
    result,          \* split_for_polly: the returned list
    locals,          \* split_for_polly: its local variables at the return
    split_pc,        \* split_for_polly: "idle", "called" or "returned"
    script_file,     \* demo_script.txt: NoFile, or its content
    pc,              \* main: the step it is at
    script_content,  \* main: script_content
    is_ssml,         \* main: is_ssml
    segments,        \* main: segments
    audio_segments,  \* main: audio_segments
    requests,        \* every request sent to Polly so far, in order, with the
                     \* segment it was sent for and the answer it got
    final_audio,     \* main: final_audio
    output_file,     \* demo_audio.mp3: whether it was opened, and its bytes
    exit_code        \* the process's exit status, -1 while it runs

\* ------------------------------------------------------------------ bounds
FillerLen == 1480
MaxFrags == 3
MaxMainFrags == 3
SmallLimit == 10
MidLimit == 36

\* ----------------------------------------------------------------- strings
Filler == "w*"

SPEAK_OPEN == <<"<", "s", "p", "e", "a", "k", ">">>
SPEAK_CLOSE == <<"<", "/", "s", "p", "e", "a", "k", ">">>
PROSODY_OPEN == <<"<", "p", "r", "o", "s", "o", "d", "y">>
PROSODY_CLOSE == <<"<", "/", "p", "r", "o", "s", "o", "d", "y", ">">>
SECTION_OPEN == <<"[", "S", "E", "C", "T", "I", "O", "N", ":", " ">>

\* len(s)
StrLen(s) == Len(s) + (FillerLen - 1) * Cardinality({k \in 1..Len(s) : s[k] = Filler})

\* s[i:] (1-based i)
Tail_from(s, i) == SubSeq(s, i, Len(s))

\* s.startswith(lit, i): the literal lit occurs in s at index i
MatchAt(s, i, lit) ==
    /\ i >= 1
    /\ i + Len(lit) - 1 <= Len(s)
    /\ \A k \in 1..Len(lit) : s[i + k - 1] = lit[k]

\* The least element of a non-empty set of integers
Least(S) == CHOOSE k \in S : \A m \in S : k <= m

\* s.find(lit, from): the least index >= from where lit occurs, 0 when none
Find(s, lit, from) ==
    LET hits == {k \in from..Len(s) : MatchAt(s, k, lit)}
    IN IF hits = {} THEN 0 ELSE Least(hits)

\* lit in s
Contains(s, lit) == Find(s, lit, 1) > 0

\* str.strip() removes these
IsSpace(c) == c \in {" ", "\n", "\t"}

\* not s.strip()
IsBlank(s) == \A k \in 1..Len(s) : IsSpace(s[k])

\* f'<speak>{content}</speak>'
Wrap(content) == SPEAK_OPEN \o content \o SPEAK_CLOSE

\* ---------------------------------------------------------- split_for_polly
\* section_pattern = r'\[SECTION: [^\]]+\]\n?' tried at index i: the index just
\* past the match, 0 when the pattern does not match at i.  [^\]]+ is greedy
\* and excludes "]", so it takes the whole run up to the next "]".
section_pattern(s, i) ==
    LET j == i + Len(SECTION_OPEN)
        close == Find(s, <<"]">>, j)
    IN IF MatchAt(s, i, SECTION_OPEN) /\ close > j
       THEN IF close + 1 <= Len(s) /\ s[close + 1] = "\n" THEN close + 2 ELSE close + 1
       ELSE 0

\* re.sub(section_pattern, '', s), scanning from index i: one left-to-right
\* pass; the text up to the leftmost match is kept, the match is dropped, and
\* the scan goes on after it
RECURSIVE re_sub_from(_, _)
re_sub_from(s, i) ==
    LET hits == {k \in i..Len(s) : section_pattern(s, k) > 0}
    IN IF hits = {} THEN Tail_from(s, i)
       ELSE SubSeq(s, i, Least(hits) - 1)
            \o re_sub_from(s, section_pattern(s, Least(hits)))

text_without_markers(t) == re_sub_from(t, 1)

\* re.findall(r'<speak>(.*?)</speak>', s, re.DOTALL), scanning from index i
\* speak_pattern = r'<speak>(.*?)</speak>' (DOTALL) tried at index i: the index
\* of the '</speak>' that ends the match, the first one after the '<speak>',
\* 0 when the pattern does not match at i
speak_pattern(s, i) ==
    IF MatchAt(s, i, SPEAK_OPEN) THEN Find(s, SPEAK_CLOSE, i + Len(SPEAK_OPEN)) ELSE 0

\* The groups of the leftmost non-overlapping matches from index i on
RECURSIVE re_findall_from(_, _)
re_findall_from(s, i) ==
    LET hits == {k \in i..Len(s) : speak_pattern(s, k) > 0}
        c == speak_pattern(s, Least(hits))
    IN IF hits = {} THEN <<>>
       ELSE <<SubSeq(s, Least(hits) + Len(SPEAK_OPEN), c - 1)>>
            \o re_findall_from(s, c + Len(SPEAK_CLOSE))

\* Mutant of speak_contents: a script without any <speak> block is taken whole
speak_contents_or_all(without_markers) ==
    IF re_findall_from(without_markers, 1) = <<>> THEN <<without_markers>>
    ELSE re_findall_from(without_markers, 1)

speak_contents(without_markers) == re_findall_from(without_markers, 1)

\* combined_content = '\n'.join(speak_contents)
RECURSIVE combined_content(_)
combined_content(contents) ==
    IF contents = <<>> THEN <<>>
    ELSE IF Len(contents) = 1 THEN contents[1]
    ELSE contents[1] \o <<"\n">> \o combined_content(Tail(contents))

full_ssml(combined) == Wrap(combined)

\* Mutant of fits_in_one: the limit itself no longer fits
fits_in_one_strict(full, limit) == StrLen(full) < limit

\* len(full_ssml) <= max_chars
fits_in_one(full, limit) == StrLen(full) <= limit

\* re.split(r'(</prosody>)', s): text, separator, text, ..., text
RECURSIVE re_split(_)
re_split(s) ==
    LET c == Find(s, PROSODY_CLOSE, 1)
    IN IF c = 0 THEN <<s>>
       ELSE <<SubSeq(s, 1, c - 1), PROSODY_CLOSE>>
            \o re_split(Tail_from(s, c + Len(PROSODY_CLOSE)))

prosody_blocks(combined) == re_split(combined)

\* Mutant of split_loop: closing a segment starts the next one empty, losing
\* the block that did not fit
RECURSIVE split_loop_drop(_, _, _, _, _)
split_loop_drop(blocks, limit, i, segs, current_content) ==
    IF i > Len(blocks) THEN <<segs, current_content>>
    ELSE LET block == blocks[i]
             closing_tag == IF i + 1 <= Len(blocks) THEN blocks[i + 1] ELSE <<>>
             full_block == block \o closing_tag
             test_segment == Wrap(current_content \o full_block)
         IN IF IsBlank(full_block)
            THEN split_loop_drop(blocks, limit, i + 2, segs, current_content)
            ELSE IF current_content # <<>> /\ StrLen(test_segment) > limit
            THEN split_loop_drop(blocks, limit, i + 2,
                                 Append(segs, Wrap(current_content)), <<>>)
            ELSE split_loop_drop(blocks, limit, i + 2, segs,
                                 current_content \o full_block)

\* The for loop over range(0, len(prosody_blocks), 2), from (1-based) index i
\* with segments (segs) and current_content as accumulated so far; its value is
\* <<segments, current_content>> at loop exit.
RECURSIVE split_loop(_, _, _, _, _)
split_loop(blocks, limit, i, segs, current_content) ==
    IF i > Len(blocks) THEN <<segs, current_content>>
    ELSE LET block == blocks[i]
             closing_tag == IF i + 1 <= Len(blocks) THEN blocks[i + 1] ELSE <<>>
             full_block == block \o closing_tag
             test_segment == Wrap(current_content \o full_block)
         IN IF IsBlank(full_block)
            THEN split_loop(blocks, limit, i + 2, segs, current_content)
            ELSE IF current_content # <<>> /\ StrLen(test_segment) > limit
            THEN split_loop(blocks, limit, i + 2,
                            Append(segs, Wrap(current_content)), full_block)
            ELSE split_loop(blocks, limit, i + 2, segs,
                            current_content \o full_block)

\* The segments list when the function reaches its return statement: the loop,
\* then "if current_content.strip(): segments.append(...)"
loop_segments(blocks, limit) ==
    LET out == split_loop(blocks, limit, 1, <<>>, <<>>)
    IN IF ~IsBlank(out[2]) THEN Append(out[1], Wrap(out[2])) ELSE out[1]

\* return segments if segments else [full_ssml]
segments_or_full(segs, full) == IF segs # <<>> THEN segs ELSE <<full>>

\* One call of split_for_polly: its local variables at the return (segments is
\* still unassigned, "none", at the early return of line 83) and the value it
\* returns, ret.
split_locals(t, limit) ==
    LET without_markers == text_without_markers(t)
        contents == speak_contents(without_markers)
        combined == combined_content(contents)
        full == full_ssml(combined)
        early == fits_in_one(full, limit)
        segs == loop_segments(prosody_blocks(combined), limit)
    IN [ text_without_markers |-> without_markers,
         speak_contents |-> contents,
         combined_content |-> combined,
         full_ssml |-> full,
         segments |-> IF early THEN <<"none">> ELSE segs,
         ret |-> IF early THEN <<full>> ELSE segments_or_full(segs, full) ]

split_for_polly(t, limit) == split_locals(t, limit).ret

\* The locals before any call
NoLocals ==
    [ text_without_markers |-> <<>>, speak_contents |-> <<>>,
      combined_content |-> <<>>, full_ssml |-> <<>>,
      segments |-> <<"none">>, ret |-> <<>> ]

\* ------------------------------------------------------------------ inputs
\* The scripts explored: up to MaxFrags fragments in a row, bare or enclosed in
\* one <speak> element.  The fragments are the tags, a prosody element, a
\* prosody element holding a long run of text, the boundary between two
\* <speak> blocks, a letter, a line break, a marker and the two halves of a
\* marker.
PROSODY_TAG == PROSODY_OPEN \o <<">">>
Fragments ==
    { SPEAK_OPEN, SPEAK_CLOSE, PROSODY_TAG, PROSODY_CLOSE,
      PROSODY_TAG \o <<"a">> \o PROSODY_CLOSE,
      PROSODY_TAG \o <<Filler>> \o PROSODY_CLOSE,
      SPEAK_CLOSE \o <<"\n">> \o SPEAK_OPEN,
      <<"a">>, <<"\n">>,
      SECTION_OPEN \o <<"x", "]">>,
      <<"[", "S", "E", "C", "T">>,
      <<"I", "O", "N", ":", " ", "x", "]">> }

RECURSIVE Flatten(_)
Flatten(parts) == IF parts = <<>> THEN <<>> ELSE parts[1] \o Flatten(Tail(parts))

Bodies == {Flatten(fs) : fs \in UNION {[1..n -> Fragments] : n \in 0..MaxFrags}}

\* The script of the end-to-end example: <speak>hello</speak>
HelloScript == Wrap(<<"h", "e", "l", "l", "o">>)

Scripts == Bodies \cup {Wrap(b) : b \in Bodies} \cup {HelloScript}

\* ------------------------------------------------------------ program constants
DefaultMaxChars == 3000
MainMaxChars == 3000
VOICE_ID == "Kendra"

MaxCharsValues == {SmallLimit, MidLimit, DefaultMaxChars}

\* ------------------------------------------------------------------- Polly
\* What polly_client.synthesize_speech can answer: a response with an
\* AudioStream holding some bytes, a response without one, or an exception;
\* str(exception) is modelled by the set of the phrases line 150 looks for
\* that it contains.
AudioChunks == {<<1>>, <<2, 3>>}
ErrorMessages == {{}, {"Unsupported"}, {"Neural"}, {"does not support"}}
Responses ==
    {[kind |-> "audio", bytes |-> c, msg |-> {}] : c \in AudioChunks}
    \cup {[kind |-> "no_stream", bytes |-> <<>>, msg |-> {}]}
    \cup {[kind |-> "error", bytes |-> <<>>, msg |-> m] : m \in ErrorMessages}

\* ------------------------------------------------------- synthesize_speech
\* Mutant of text_type: the payload is always declared as markup
text_type_always_ssml(ssml) == "ssml"

\* text_type = 'ssml' if is_ssml else 'text'
text_type(ssml) == IF ssml THEN "ssml" ELSE "text"

\* Mutant of is_unsupported: any failure of the neural request is retried
is_unsupported_any(error_msg) == TRUE

\* 'Unsupported' in error_msg or 'Neural' in error_msg or 'does not support' in error_msg
is_unsupported(error_msg) ==
    \/ "Unsupported" \in error_msg
    \/ "Neural" \in error_msg
    \/ "does not support" \in error_msg

\* The keyword arguments of one polly_client.synthesize_speech call
polly_request(engine, payload, ssml) ==
    [ Engine |-> engine, LanguageCode |-> "en-US", OutputFormat |-> "mp3",
      Text |-> payload, TextType |-> text_type(ssml), VoiceId |-> VOICE_ID ]

\* Mutant of synthesize_speech: a failure is swallowed and empty audio returned
synthesize_speech_swallow(payload, ssml, neural_response, standard_response) ==
    LET first == [request |-> polly_request("neural", payload, ssml),
                  response |-> neural_response]
        second == [request |-> polly_request("standard", payload, ssml),
                   response |-> standard_response]
        retry == neural_response.kind = "error" /\ is_unsupported(neural_response.msg)
        response == IF retry THEN standard_response ELSE neural_response
    IN [ sent |-> IF retry THEN <<first, second>> ELSE <<first>>,
         raised |-> FALSE,
         audio_bytes |-> IF response.kind = "audio" THEN response.bytes ELSE <<>> ]

\* One call synthesize_speech(polly_client, payload, ssml), where Polly would
\* answer the neural request with neural_response and a standard request with
\* standard_response: the requests sent with the answer each got, whether the
\* call raised, and the bytes it returned.
synthesize_speech(payload, ssml, neural_response, standard_response) ==
    LET first == [request |-> polly_request("neural", payload, ssml),
                  response |-> neural_response]
        second == [request |-> polly_request("standard", payload, ssml),
                   response |-> standard_response]
        retry == neural_response.kind = "error" /\ is_unsupported(neural_response.msg)
        response == IF retry THEN standard_response ELSE neural_response
    IN [ sent |-> IF retry THEN <<first, second>> ELSE <<first>>,
         raised |-> response.kind # "audio",
         audio_bytes |-> IF response.kind = "audio" THEN response.bytes ELSE <<>> ]

\* ------------------------------------------------------- concatenate_audio
\* Mutant of concatenate_audio: the chunks are joined last to first
RECURSIVE concatenate_audio_reversed(_)
concatenate_audio_reversed(chunks) ==
    IF chunks = <<>> THEN <<>>
    ELSE concatenate_audio_reversed(Tail(chunks)) \o chunks[1]

\* b''.join(segments)
RECURSIVE concatenate_audio(_)
concatenate_audio(chunks) ==
    IF chunks = <<>> THEN <<>> ELSE chunks[1] \o concatenate_audio(Tail(chunks))

\* -------------------------------------------------------------------- main
NoFile == <<"no file">>

\* '<speak>' in script_content
detect_ssml(content) == Contains(content, SPEAK_OPEN)

MainFragments ==
    { SPEAK_OPEN, SPEAK_CLOSE,
      PROSODY_TAG \o <<Filler>> \o PROSODY_CLOSE,
      <<"a">>, <<"\n">> }

MainBodies == {Flatten(fs) : fs \in UNION {[1..n -> MainFragments] : n \in 0..MaxMainFrags}}

MainScripts == MainBodies \cup {Wrap(b) : b \in MainBodies}

splitVars == <<text, max_chars, result, locals, split_pc>>
mainVars == <<script_file, pc, script_content, is_ssml, segments, audio_segments,
              requests, final_audio, output_file, exit_code>>
vars == <<splitVars, mainVars>>

\* main is not running
MainIdle ==
    /\ script_file = NoFile
    /\ pc = "exit"
    /\ script_content = <<>>
    /\ is_ssml = FALSE
    /\ segments = <<>>
    /\ audio_segments = <<>>
    /\ requests = <<>>
    /\ final_audio = <<>>
    /\ output_file = [opened |-> FALSE, bytes |-> <<>>]
    /\ exit_code = -1

\* no direct call of split_for_polly is running
SplitIdle ==
    /\ text = <<>>
    /\ max_chars = DefaultMaxChars
    /\ result = <<>>
    /\ locals = NoLocals
    /\ split_pc = "idle"

\* ------------------------------------------- split_for_polly, called directly
InitSplit ==
    /\ text \in Scripts
    /\ max_chars \in MaxCharsValues
    /\ result = <<>>
    /\ locals = NoLocals
    /\ split_pc = "called"
    /\ MainIdle

CallSplit ==
    /\ split_pc = "called"
    /\ locals' = split_locals(text, max_chars)
    /\ result' = locals'.ret
    /\ split_pc' = "returned"
    /\ UNCHANGED <<text, max_chars>>
    /\ UNCHANGED mainVars

NextSplit == CallSplit

SpecSplit == InitSplit /\ [][NextSplit]_vars

\* ------------------------------------------------------------- a run of main
Init ==
    /\ SplitIdle
    /\ script_file \in {NoFile} \cup MainScripts
    /\ pc = "read"
    /\ script_content = <<>>
    /\ is_ssml = FALSE
    /\ segments = <<>>
    /\ audio_segments = <<>>
    /\ requests = <<>>
    /\ final_audio = <<>>
    /\ output_file = [opened |-> FALSE, bytes |-> <<>>]
    /\ exit_code = -1

\* sys.exit(code)
Exit(code) == pc' = "exit" /\ exit_code' = code

\* Step 1, read_script: a missing file raises FileNotFoundError, a file that
\* cannot be read IOError, a blank one ValueError; main's handlers exit with 1.
ReadScript ==
    /\ pc = "read"
    /\ \E readable \in BOOLEAN :
         IF script_file = NoFile \/ ~readable \/ IsBlank(script_file)
         THEN Exit(1) /\ UNCHANGED script_content
         ELSE pc' = "split" /\ script_content' = script_file /\ UNCHANGED exit_code
    /\ UNCHANGED <<script_file, is_ssml, segments, audio_segments, requests,
                   final_audio, output_file>>
    /\ UNCHANGED splitVars

\* Steps 2 and 3: is_ssml, then segments = split_for_polly(script_content, 3000)
SplitScript ==
    /\ pc = "split"
    /\ is_ssml' = detect_ssml(script_content)
    /\ segments' = split_for_polly(script_content, MainMaxChars)
    /\ pc' = "connect"
    /\ UNCHANGED <<script_file, script_content, audio_segments, requests,
                   final_audio, output_file, exit_code>>
    /\ UNCHANGED splitVars

\* Step 4: boto3.client('polly'), which may raise; then audio_segments = []
Connect ==
    /\ pc = "connect"
    /\ \E connected \in BOOLEAN :
         IF connected THEN pc' = "synth" /\ UNCHANGED exit_code ELSE Exit(1)
    /\ audio_segments' = <<>>
    /\ UNCHANGED <<script_file, script_content, is_ssml, segments, requests,
                   final_audio, output_file>>
    /\ UNCHANGED splitVars

\* Step 5, one iteration of the loop over segments: the next segment is
\* synthesized and its bytes appended, or the run exits with 1.
SynthesizeSegment ==
    /\ pc = "synth"
    /\ Len(audio_segments) < Len(segments)
    /\ \E neural_response \in Responses, standard_response \in Responses :
         LET i == Len(audio_segments) + 1
             call == synthesize_speech(segments[i], is_ssml,
                                       neural_response, standard_response)
         IN /\ requests' = requests \o [k \in 1..Len(call.sent) |->
                                         [ segment |-> i,
                                           request |-> call.sent[k].request,
                                           response |-> call.sent[k].response ]]
            /\ IF call.raised
               THEN Exit(1) /\ UNCHANGED audio_segments
               ELSE /\ audio_segments' = Append(audio_segments, call.audio_bytes)
                    /\ UNCHANGED <<pc, exit_code>>
    /\ UNCHANGED <<script_file, script_content, is_ssml, segments, final_audio,
                   output_file>>
    /\ UNCHANGED splitVars

\* Step 6, after the loop: final_audio = concatenate_audio(audio_segments)
ConcatenateAudio ==
    /\ pc = "synth"
    /\ Len(audio_segments) = Len(segments)
    /\ final_audio' = concatenate_audio(audio_segments)
    /\ pc' = "write"
    /\ UNCHANGED <<script_file, script_content, is_ssml, segments, audio_segments,
                   requests, output_file, exit_code>>
    /\ UNCHANGED splitVars

\* Step 7: open(output_path, 'wb') and f.write(final_audio); either may raise,
\* and main's handler exits with 1.  Falling off the end of main exits with 0.
WriteOutput ==
    /\ pc = "write"
    /\ \E outcome \in {"written", "open failed", "write failed"} :
         /\ output_file' = [opened |-> outcome # "open failed",
                            bytes |-> IF outcome = "written" THEN final_audio ELSE <<>>]
         /\ Exit(IF outcome = "written" THEN 0 ELSE 1)
    /\ UNCHANGED <<script_file, script_content, is_ssml, segments, audio_segments,
                   requests, final_audio>>
    /\ UNCHANGED splitVars

Next ==
    \/ ReadScript
    \/ SplitScript
    \/ Connect
    \/ SynthesizeSegment
    \/ ConcatenateAudio
    \/ WriteOutput

Spec == Init /\ [][Next]_vars

\* Either of the two: a direct call of split_for_polly, or a run of main
InitAll == InitSplit \/ Init
NextAll == NextSplit \/ Next
SpecAll == InitAll /\ [][NextAll]_vars

\* ================================================================== claims
\* A segment without its '<speak>' and '</speak>' wrapper
Inner(seg) == SubSeq(seg, Len(SPEAK_OPEN) + 1, Len(seg) - Len(SPEAK_CLOSE))

\* The inner contents of the returned segments, concatenated in list order
InnerConcat(segs) == Flatten([k \in 1..Len(segs) |-> Inner(segs[k])])

\* part occurs in whole as a contiguous piece
IsPieceOf(part, whole) == \E i \in 1..(Len(whole) + 1) : MatchAt(whole, i, part)

\* The call took the oversized fallback: the loop ran and produced no segment
OversizedFallback == locals.segments = <<>>

\* C1: every returned segment has length <= max_chars, except in the
\* oversized-fallback case where the loop produced no segment at all.
C1_SegmentsWithinLimit ==
    (split_pc = "returned" /\ ~OversizedFallback)
        => \A k \in 1..Len(result) : StrLen(result[k]) <= max_chars

\* s without the text after its last '</prosody>' when that text is blank
DropBlankTail(s) ==
    LET closes == {k \in 1..Len(s) : MatchAt(s, k, PROSODY_CLOSE)}
        last == IF closes = {} THEN 0
                ELSE (CHOOSE k \in closes : \A m \in closes : m <= k)
                     + Len(PROSODY_CLOSE) - 1
    IN IF IsBlank(Tail_from(s, last + 1)) THEN SubSeq(s, 1, last) ELSE s

\* C2 as stated: when more than one segment is returned, the inner contents
\* of the segments, concatenated in order, are exactly the joined content.
C2_LosslessPartition ==
    (split_pc = "returned" /\ Len(result) > 1)
        => InnerConcat(result) = locals.combined_content

\* C2 as amended: when more than one segment is returned, the inner contents
\* of the segments, concatenated in order, are the joined content without the
\* whitespace-only text (if any) that follows its last '</prosody>'.
C2_LosslessUpToBlankTail ==
    (split_pc = "returned" /\ Len(result) > 1)
        => InnerConcat(result) = DropBlankTail(locals.combined_content)

\* C2's case: several segments were returned and a blank tail was dropped
C2_Witness ==
    /\ split_pc = "returned"
    /\ Len(result) > 1
    /\ InnerConcat(result) # locals.combined_content
    /\ InnerConcat(result) = DropBlankTail(locals.combined_content)

\* The prosody nesting depth of s after its first n characters: the opening
\* tags that start there minus the closing tags
ProsodyDepth(s, n) ==
    Cardinality({k \in 1..n : MatchAt(s, k, PROSODY_OPEN)})
    - Cardinality({k \in 1..n : MatchAt(s, k, PROSODY_CLOSE)})

\* Content of a <speak> element: no <speak> tag in it, every closing prosody
\* tag after its opening tag, every opening tag closed
WellFormedContent(c) ==
    /\ ~Contains(c, SPEAK_OPEN)
    /\ ~Contains(c, SPEAK_CLOSE)
    /\ \A n \in 1..Len(c) : ProsodyDepth(c, n) >= 0
    /\ ProsodyDepth(c, Len(c)) = 0

\* One <speak> root, opened at the start and closed at the end
WellFormedSegment(seg) ==
    /\ MatchAt(seg, 1, SPEAK_OPEN)
    /\ Len(seg) >= Len(SPEAK_OPEN) + Len(SPEAK_CLOSE)
    /\ MatchAt(seg, Len(seg) - Len(SPEAK_CLOSE) + 1, SPEAK_CLOSE)
    /\ WellFormedContent(Inner(seg))

\* C3: when every <speak> block of the input is well-formed, every returned
\* segment is well-formed standalone markup (one root, prosody tags matched).
C3_SegmentsWellFormed ==
    (/\ split_pc = "returned"
     /\ \A b \in 1..Len(locals.speak_contents) :
            WellFormedContent(locals.speak_contents[b]))
        => \A k \in 1..Len(result) : WellFormedSegment(result[k])

\* s holds '[SECTION: ', one or more characters other than ']', and a ']'
HasMarker(s) ==
    \E i \in 1..Len(s) :
        /\ MatchAt(s, i, SECTION_OPEN)
        /\ \E j \in (i + Len(SECTION_OPEN) + 1)..Len(s) :
               /\ s[j] = "]"
               /\ \A k \in (i + Len(SECTION_OPEN))..(j - 1) : s[k] # "]"

\* C4: no returned segment contains an organizational marker.
C4_NoMarkerInOutput ==
    split_pc = "returned" => \A k \in 1..Len(result) : ~HasMarker(result[k])

\* text is one <speak> element whose content holds no <speak> tag and no "["
PlainSpeakElement(t) ==
    /\ t = Wrap(Inner(t))
    /\ ~Contains(Inner(t), SPEAK_OPEN)
    /\ ~Contains(Inner(t), SPEAK_CLOSE)
    /\ \A k \in 1..Len(t) : t[k] # "["

\* C5: when the wrapped joined content has length <= max_chars, exactly one
\* segment is returned, the joined content in one <speak> root; a script that
\* is one <speak> element under the limit comes back unchanged, and
\* '<speak>hello</speak>' with max_chars = 3000 yields ['<speak>hello</speak>'].
C5_UnderLimitOneSegment ==
    split_pc = "returned" =>
        /\ StrLen(Wrap(locals.combined_content)) <= max_chars
               => result = <<Wrap(locals.combined_content)>>
        /\ (PlainSpeakElement(text) /\ StrLen(text) <= max_chars)
               => result = <<text>>
        /\ (text = HelloScript /\ max_chars = DefaultMaxChars)
               => result = <<HelloScript>>

\* C5's case: two <speak> blocks with a prosody element, joined, exactly at the limit
C5_Witness ==
    /\ split_pc = "returned"
    /\ Len(locals.speak_contents) = 2
    /\ Contains(locals.combined_content, PROSODY_CLOSE)
    /\ StrLen(Wrap(locals.combined_content)) = max_chars
    /\ result = <<Wrap(locals.combined_content)>>

\* The log entries of the requests sent for segment i, in order
RequestsFor(i) ==
    LET at == {k \in 1..Len(requests) : requests[k].segment = i}
    IN [n \in 1..Cardinality(at) |->
           requests[CHOOSE k \in at : Cardinality({m \in at : m < k}) = n - 1]]

\* The segments for which a request was sent
Requested == {requests[k].segment : k \in 1..Len(requests)}

\* The last request for segment i got audio back
Synthesized(i) ==
    /\ RequestsFor(i) # <<>>
    /\ RequestsFor(i)[Len(RequestsFor(i))].response.kind = "audio"

\* The bytes Polly returned for segment i
ChunkOf(i) == RequestsFor(i)[Len(RequestsFor(i))].response.bytes

\* The chunks of segments 1..n, one after the other
RECURSIVE ChunksUpTo(_)
ChunksUpTo(n) == IF n = 0 THEN <<>> ELSE ChunksUpTo(n - 1) \o ChunkOf(n)

\* C6: in a run that reaches the write step, the bytes to write (and those
\* written) are the chunks of segments 1..N in order: every segment has one
\* chunk, chunk i lies after chunks 1..i-1, and the total length is the sum.
C6_OrderPreserved ==
    (pc = "write" \/ exit_code = 0) =>
        /\ \A i \in 1..Len(segments) : Synthesized(i)
        /\ Len(audio_segments) = Len(segments)
        /\ final_audio = ChunksUpTo(Len(segments))
        /\ \A i \in 1..Len(segments) :
               SubSeq(final_audio, Len(ChunksUpTo(i - 1)) + 1, Len(ChunksUpTo(i)))
                   = ChunkOf(i)
        /\ exit_code = 0 => output_file = [opened |-> TRUE, bytes |-> final_audio]

\* C6's case: three segments, different non-empty chunks, the file written
C6_Witness ==
    /\ exit_code = 0
    /\ Len(segments) = 3
    /\ ChunkOf(1) = <<2, 3>>
    /\ ChunkOf(2) = <<1>>
    /\ ChunkOf(3) = <<2, 3>>
    /\ output_file.bytes = <<2, 3, 1, 2, 3>>

\* An error message of an 'unsupported' rejection
UnsupportedRejection(msg) == msg \cap {"Unsupported", "Neural", "does not support"} # {}

C8_FailFast ==
    /\ \A i \in Requested :
           ~Synthesized(i) =>
               /\ \A j \in Requested : j <= i
               /\ ~output_file.opened
               /\ pc = "exit"
               /\ exit_code # 0
    /\ exit_code = 0 =>
           /\ \A i \in 1..Len(segments) : Synthesized(i)
           /\ output_file.opened
           /\ output_file.bytes = final_audio
    /\ pc = "exit" <=> exit_code \in {0, 1}

\* C8's case: the first of several segments failed after the fallback attempt
C8_Witness ==
    /\ Len(segments) >= 2
    /\ Len(RequestsFor(1)) = 2
    /\ ~Synthesized(1)
    /\ exit_code = 1

\* C9: every request of a run carries the payload type 'text' when the script
\* holds no '<speak>' and 'ssml' when it does, on either engine, and is_ssml
\* says which.
C9_PayloadType ==
    LET has_speak == \E i \in 1..Len(script_content) :
                         MatchAt(script_content, i, SPEAK_OPEN)
    IN /\ pc \in {"connect", "synth", "write"} => is_ssml = has_speak
       /\ \A k \in 1..Len(requests) :
              requests[k].request.TextType = IF has_speak THEN "ssml" ELSE "text"

\* C9's case: a script without '<speak>' synthesized through the fallback
C9_Witness ==
    /\ script_content # <<>>
    /\ ~Contains(script_content, SPEAK_OPEN)
    /\ ~is_ssml
    /\ Len(requests) = 2
    /\ requests[2].request.Engine = "standard"
    /\ requests[2].request.TextType = "text"

\* s holds no '<speak>' followed, at or after its end, by a '</speak>'
NoCompleteBlock(s) ==
    ~\E i \in 1..Len(s) :
        /\ MatchAt(s, i, SPEAK_OPEN)
        /\ \E j \in (i + Len(SPEAK_OPEN))..Len(s) : MatchAt(s, j, SPEAK_CLOSE)

\* C10: a script with no complete <speak>...</speak> block after marker
\* removal yields exactly ['<speak></speak>'] whatever max_chars is, so main
\* sends the empty wrapper for it; and every returned segment holds only a
\* piece of the joined block contents, so no text from outside the blocks.
C10_NoBlockEmptyWrapper ==
    /\ split_pc = "returned" =>
           /\ NoCompleteBlock(locals.text_without_markers)
                  => result = <<Wrap(<<>>)>>
           /\ \A k \in 1..Len(result) :
                  IsPieceOf(Inner(result[k]), locals.combined_content)
    /\ LET blockless == NoCompleteBlock(text_without_markers(script_content))
       IN \A k \in 1..Len(requests) :
              requests[k].request.Text # Wrap(<<>>) => ~blockless

\* C10's case: a plain-text script split with max_chars below the length of
\* the empty wrapper
C10_Witness ==
    /\ split_pc = "returned"
    /\ text = <<"a">>
    /\ max_chars < StrLen(Wrap(<<>>))
    /\ result = <<Wrap(<<>>)>>
====
